---- MODULE Spec2Model ----
(***************************************************************************)
(* Model of the Tiger-Shaman werewolf backend: the GameManager             *)
(* (internal/game/manager.go, internal/game/logic.go) driven by the        *)
(* HTTP room endpoints and the websocket command handler                   *)
(* (handleWebSocketMessage).                                               *)
(*                                                                         *)
(* Player ids are the naturals 1..MaxJoin (the server issues a fresh uuid  *)
(* per join, so the k-th player to join is id k); NoId models the empty    *)
(* string "" that the code uses for "unset"; Ghost is an id that is not a  *)
(* player of the room (clients choose targetId freely).                    *)
(***************************************************************************)
EXTENDS Integers, Sequences, FiniteSets, TLC

\* ------------------------------------------------------------------ bounds
\* ids that may ever join the room
MaxJoin == 7
\* commands accepted from the first start_game on
MaxCmds == 7
\* the clients that send vote range over the first MaxVoters ids
MaxVoters == 3
\* the clients that send skip_phase, and the targetId of a vote or a
\* hunter_shoot, range over the first MaxTarget ids (targetId also over Ghost)
MaxTarget == 2
\* targetId of a night_action or curse_action ranges over the first
\* MaxNightTarget ids and Ghost
MaxNightTarget == 1
\* players already dead in a room handed to the night resolver
MaxDead == 1

\* handler invocations followed step by step while they run concurrently
MaxHandlers == 2

\* ------------------------------------------------------- program constants
MinPlayers == 5
AlphaMinPlayers == 7
RoomMaxPlayers == 10
PhaseSeconds == 120
NoId == 0

Ghost == MaxJoin + 1
\* room.HostID: the player CreateRoom puts into the room
HostID == 1

PhaseWaiting == "waiting"
PhaseNight == "night"
PhaseDay == "day"
PhaseVoting == "voting"
PhaseEnded == "ended"

RoleAlphaTiger == "alpha_tiger"
RoleTiger == "tiger"
RoleShaman == "shaman"
RoleHunter == "hunter"
RoleVillager == "villager"
NoRole == ""

NoTime == 0
EmptyMap == [x \in {} |-> 0]

VARIABLES
    exists,                 \* the room is in gm.Rooms
    players,                \* room.Players: id -> Player
    phase,                  \* room.Phase
    round,                  \* room.Round
    phaseEndTime,           \* room.PhaseEndTime (seconds from now, NoTime = nil)
    voteResults,            \* room.VoteResults: target id -> count
    hunterProtection,       \* room.HunterProtection
    tigerTarget,            \* room.TigerTarget
    shamanVision,           \* room.ShamanVision
    cursedPlayer,           \* room.CursedPlayer
    nightActionsCompleted,  \* room.NightActionsCompleted (key set)
    currentNightRole,       \* room.CurrentNightRole
    nightActionOrder,       \* room.NightActionOrder
    waitingHunterShoot,     \* room.WaitingHunterShoot
    deadHunterID,           \* room.DeadHunterID
    winningTeam,            \* room.WinningTeam
    mu,                     \* gm.mu: "free", or "stuck" once it is locked twice
    crashed,                \* the process died of a nil dereference
    nightResult,            \* the NightResult last returned by ProcessNightPhase
    pre,                    \* the room as ProcessNightPhase found it
    last,                   \* the last command handled and its outcome
    shotKills,              \* players killed by hunter_shoot since start_game
    budget,                 \* commands accepted since the first start_game
    lynched,                \* players eliminated by processVotes since Voting was entered
    inflight                \* the handler invocations running concurrently

roomVars == <<players, phase, round, phaseEndTime, voteResults, hunterProtection,
              tigerTarget, shamanVision, cursedPlayer, nightActionsCompleted,
              currentNightRole, nightActionOrder, waitingHunterShoot,
              deadHunterID, winningTeam>>

vars == <<exists, players, phase, round, phaseEndTime, voteResults,
          hunterProtection, tigerTarget, shamanVision, cursedPlayer,
          nightActionsCompleted, currentNightRole, nightActionOrder,
          waitingHunterShoot, deadHunterID, winningTeam, mu, crashed,
          nightResult, pre, last, shotKills, budget, lynched, inflight>>

\* ----------------------------------------------------------------- helpers
Ids == DOMAIN players

TargetIds == (1..MaxTarget) \cup {Ghost}

NightTargetIds == (1..MaxNightTarget) \cup {Ghost}

Clients == Ids \cap (1..MaxTarget)

Voters == Ids \cap (1..MaxVoters)

NewPlayer == [role |-> NoRole, isAlive |-> TRUE, isReady |-> FALSE,
              isCursed |-> FALSE, hasUsedCurse |-> FALSE, canShoot |-> FALSE,
              lastProtected |-> NoId, hasActedThisNight |-> FALSE,
              votedFor |-> NoId]

UserName(id) == <<"user", id>>

NoResult == [killed |-> NoId, protected |-> FALSE, shamanSaved |-> FALSE,
             shamanVision |-> NoId, visionResult |-> ""]

NoPre == [players |-> EmptyMap, tigerTarget |-> NoId,
          hunterProtection |-> NoId, shamanVision |-> NoId]

\* last: the command of the last step (cmd), its sender and targetId, whether
\* no error was returned (ok), and for a vote finalization the tally it found
\* (note) and the player it eliminated (target); the note of a vote tells
\* whether it repeated or moved an earlier vote of the same player
NoCmd == [cmd |-> "", actor |-> NoId, target |-> NoId, ok |-> FALSE, note |-> ""]

Accepted(c, a, t) ==
    [cmd |-> c, actor |-> a, target |-> t, ok |-> TRUE, note |-> ""]

Finalized(a, e, n) ==
    [cmd |-> "skip_phase", actor |-> a, target |-> e, ok |-> TRUE, note |-> n]

Rejected(c) ==
    [cmd |-> c, actor |-> NoId, target |-> NoId, ok |-> FALSE, note |-> ""]

\* no handler invocation is being followed step by step
Idle == [start |-> <<>>, handlers |-> <<>>]

Running == mu = "free" /\ ~crashed

\* --------------------------------------------------------------- Init
Init ==
    /\ exists = FALSE
    /\ players = EmptyMap
    /\ phase = PhaseWaiting
    /\ round = 0
    /\ phaseEndTime = NoTime
    /\ voteResults = EmptyMap
    /\ hunterProtection = NoId
    /\ tigerTarget = NoId
    /\ shamanVision = NoId
    /\ cursedPlayer = NoId
    /\ nightActionsCompleted = {}
    /\ currentNightRole = NoRole
    /\ nightActionOrder = <<>>
    /\ waitingHunterShoot = FALSE
    /\ deadHunterID = NoId
    /\ winningTeam = ""
    /\ mu = "free"
    /\ crashed = FALSE
    /\ nightResult = NoResult
    /\ pre = NoPre
    /\ last = NoCmd
    /\ shotKills = 0
    /\ budget = 0
    /\ lynched = 0
    /\ inflight = Idle

\* ------------------------------------------------ registry: create and join
\* POST /api/rooms -> GameManager.CreateRoom: the host is the first player.
\* The model follows the room stored under one code of the registry.  The code
\* is the first six characters of a random UUID and CreateRoom stores the new
\* room with gm.Rooms[code] = room without looking the code up first, so a
\* call that draws the followed code while a room is stored under it puts a
\* newly constructed room in its place (its host takes the name HostID, the
\* players of the replaced room are no longer in the registry).  A call that
\* draws any other code leaves the followed room alone and is not a step.
CreateRoom ==
    /\ Running
    /\ exists' = TRUE
    /\ players' = (HostID :> NewPlayer)
    /\ phase' = PhaseWaiting
    /\ round' = 0
    /\ phaseEndTime' = NoTime
    /\ voteResults' = EmptyMap
    /\ hunterProtection' = NoId
    /\ tigerTarget' = NoId
    /\ shamanVision' = NoId
    /\ cursedPlayer' = NoId
    /\ nightActionsCompleted' = {}
    /\ currentNightRole' = NoRole
    /\ nightActionOrder' = <<>>
    /\ waitingHunterShoot' = FALSE
    /\ deadHunterID' = NoId
    /\ winningTeam' = ""
    /\ nightResult' = NoResult
    /\ pre' = NoPre
    /\ shotKills' = 0
    /\ last' = Accepted("create_room", HostID, NoId)
    /\ UNCHANGED <<mu, crashed, budget>>
    /\ lynched' = 0
    /\ UNCHANGED inflight

\* POST /api/rooms/:code/join -> GameManager.JoinRoom
JoinRoom ==
    /\ Running
    /\ exists
    /\ Cardinality(Ids) < MaxJoin
    /\ IF Cardinality(Ids) >= RoomMaxPlayers \/ phase # PhaseWaiting
       THEN /\ last' = Rejected("join_room")
            /\ UNCHANGED players
       ELSE /\ players' = players @@ ((Cardinality(Ids) + 1) :> NewPlayer)
            /\ last' = Accepted("join_room", Cardinality(Ids) + 1, NoId)
    /\ UNCHANGED <<exists, phase, round, phaseEndTime, voteResults,
                   hunterProtection, tigerTarget, shamanVision, cursedPlayer,
                   nightActionsCompleted, currentNightRole, nightActionOrder,
                   waitingHunterShoot, deadHunterID, winningTeam, mu, crashed,
                   nightResult, pre, shotKills,
                   budget>>
    /\ UNCHANGED <<lynched, inflight>>

\* ------------------------------------------------------------ role assigner
RECURSIVE Villagers(_)
Villagers(k) == IF k <= 0 THEN <<>> ELSE <<RoleVillager>> \o Villagers(k - 1)

\* variant of RoleList that hands out the AlphaTiger from six players on
RoleListEarlyAlpha(n) ==
    LET special == IF n >= AlphaMinPlayers - 1
                   THEN <<RoleAlphaTiger, RoleTiger, RoleHunter, RoleShaman>>
                   ELSE <<RoleTiger, RoleHunter, RoleShaman>>
    IN  special \o Villagers(n - Len(special))

\* the role list of assignRoles before the shuffle
RoleList(n) ==
    LET special == IF n >= AlphaMinPlayers
                   THEN <<RoleAlphaTiger, RoleTiger, RoleHunter, RoleShaman>>
                   ELSE <<RoleTiger, RoleHunter, RoleShaman>>
    IN  special \o Villagers(n - Len(special))

Rotate(s, k) == [i \in 1..Len(s) |-> s[((i + k - 1) % Len(s)) + 1]]

\* rand.Shuffle: the orders the model draws from (every rotation of the
\* list, so that every player can receive every role)
Shuffle(s) == {Rotate(s, k) : k \in 0..(Len(s) - 1)}

\* variant of AssignedPlayer that keeps the flags of the previous game
AssignedPlayerKeepFlags(p, r) == [p EXCEPT !.role = r]

\* the per-player assignment loop of assignRoles
AssignedPlayer(p, r) ==
    [p EXCEPT !.role = r, !.isCursed = FALSE, !.hasUsedCurse = FALSE,
              !.canShoot = (r = RoleHunter), !.lastProtected = NoId]

assignRoles(ps, roles) == [id \in DOMAIN ps |-> AssignedPlayer(ps[id], roles[id])]

\* the players StartGame leaves when the shuffle comes out as roles
Dealt(ps, roles) ==
    [id \in DOMAIN ps |->
        [assignRoles(ps, roles)[id] EXCEPT !.hasActedThisNight = FALSE]]

\* start_game -> GameManager.StartGame (the handler passes the room code
\* only, the sender's id is not looked at)
StartGame ==
    /\ Running
    /\ exists
    /\ budget < MaxCmds
    /\ IF Cardinality(Ids) < MinPlayers
       THEN /\ last' = Rejected("start_game")
            /\ UNCHANGED <<roomVars, shotKills, budget>>
       ELSE \E a \in Clients, roles \in Shuffle(RoleList(Cardinality(Ids))) :
            /\ players' = Dealt(players, roles)
            /\ phase' = PhaseDay
            /\ round' = 1
            /\ phaseEndTime' = PhaseSeconds
            /\ nightActionsCompleted' = {}
            /\ last' = Accepted("start_game", a, NoId)
            /\ shotKills' = 0
            /\ budget' = budget + 1
            /\ UNCHANGED <<voteResults, hunterProtection, tigerTarget,
                           shamanVision, cursedPlayer, currentNightRole,
                           nightActionOrder, waitingHunterShoot, deadHunterID,
                           winningTeam>>
    /\ UNCHANGED <<exists, mu, crashed, nightResult, pre>>
    /\ lynched' = 0
    /\ UNCHANGED inflight

\* ------------------------------------------------------ end-condition checker
TigerTeam(ps) ==
    {id \in DOMAIN ps : ps[id].isAlive /\ ps[id].role \in {RoleTiger, RoleAlphaTiger}}

HumanTeam(ps) ==
    {id \in DOMAIN ps : ps[id].isAlive /\ ps[id].role \notin {RoleTiger, RoleAlphaTiger}}

\* variant of checkGameEndLocked in which the tigers must outnumber the humans
checkGameEndStrict(ps) ==
    LET tigerCount == Cardinality(TigerTeam(ps))
        humanCount == Cardinality(HumanTeam(ps))
    IN  IF tigerCount > humanCount /\ tigerCount > 0 THEN <<TRUE, "tiger">>
        ELSE IF tigerCount = 0 THEN <<TRUE, "human">>
        ELSE <<FALSE, "">>

\* checkGameEndLocked: <<isEnded, winner>>
checkGameEndLocked(ps) ==
    LET tigerCount == Cardinality(TigerTeam(ps))
        humanCount == Cardinality(HumanTeam(ps))
    IN  IF tigerCount >= humanCount /\ tigerCount > 0 THEN <<TRUE, "tiger">>
        ELSE IF tigerCount = 0 THEN <<TRUE, "human">>
        ELSE <<FALSE, "">>

\* ---------------------------------------------------------------- vote tally
MaxCount(vr) == CHOOSE m \in {vr[t] : t \in DOMAIN vr} : \A t \in DOMAIN vr : vr[t] <= m

\* processVotes, the scan for the player with most votes: the loop keeps the
\* first entry whose count is strictly greater than every earlier one, and Go
\* iterates a map in an unspecified order, so any entry holding the greatest
\* count can be the one kept
Eliminated(vr) ==
    IF DOMAIN vr = {} THEN {NoId}
    ELSE {t \in DOMAIN vr : vr[t] = MaxCount(vr) /\ vr[t] > 0}

\* what the finalization found: no vote, a tie at the top, or one top target
\* (with or without another target behind it)
TallyKind(vr) ==
    IF DOMAIN vr = {} THEN "none"
    ELSE IF Cardinality({t \in DOMAIN vr : vr[t] = MaxCount(vr)}) > 1 THEN "tie"
    ELSE IF Cardinality(DOMAIN vr) > 1 THEN "top2"
    ELSE "top"

\* variant of VotedOut that leaves votedFor as it was
VotedOutKeepBallots(ps, e) ==
    [id \in DOMAIN ps |->
        [ps[id] EXCEPT !.isAlive = IF id = e THEN FALSE ELSE @]]

\* processVotes, the players after eliminating e and clearing the votes
VotedOut(ps, e) ==
    [id \in DOMAIN ps |->
        [ps[id] EXCEPT !.isAlive = IF id = e THEN FALSE ELSE @,
                       !.votedFor = NoId]]

HunterCanShoot(ps, e) ==
    e \in DOMAIN ps /\ ps[e].role = RoleHunter /\ ps[e].canShoot

\* ------------------------------------------------------------ night order
RolePresentDeadToo(ps, r) == \E id \in DOMAIN ps : ps[id].role = r

RolePresent(ps, r) == \E id \in DOMAIN ps : ps[id].isAlive /\ ps[id].role = r

Only(ps, r) == IF RolePresent(ps, r) THEN <<r>> ELSE <<>>

getNightActionOrder(ps) ==
    Only(ps, RoleHunter) \o Only(ps, RoleTiger) \o Only(ps, RoleAlphaTiger)
        \o Only(ps, RoleShaman)

ClearActed(ps) == [id \in DOMAIN ps |-> [ps[id] EXCEPT !.hasActedThisNight = FALSE]]

ClearVotes(ps) == [id \in DOMAIN ps |-> [ps[id] EXCEPT !.votedFor = NoId]]

\* ------------------------------------------------------------- phase advance
\* MoveToNextPhase, case PhaseNight: it holds gm.mu and calls
\* ProcessNightPhase, whose first statement locks gm.mu again; sync.RWMutex
\* is not reentrant, so the call never returns and the lock is never released
MoveToNextPhaseNight ==
    /\ mu' = "stuck"
    /\ UNCHANGED <<players, phase, round, phaseEndTime, voteResults,
                   hunterProtection, tigerTarget, shamanVision, cursedPlayer,
                   nightActionsCompleted, nightActionOrder, waitingHunterShoot,
                   deadHunterID, winningTeam>>

\* MoveToNextPhase, case PhaseDay
MoveToNextPhaseDay ==
    /\ phase' = PhaseVoting
    /\ phaseEndTime' = PhaseSeconds
    /\ voteResults' = EmptyMap
    /\ players' = ClearVotes(players)
    /\ UNCHANGED <<round, hunterProtection, tigerTarget, shamanVision,
                   cursedPlayer, nightActionsCompleted, currentNightRole,
                   nightActionOrder, waitingHunterShoot, deadHunterID,
                   winningTeam, mu>>

\* MoveToNextPhase, case PhaseVoting, with processVotes eliminating e
MoveToNextPhaseVoting(e) ==
    LET voted == IF DOMAIN voteResults = {} THEN players ELSE VotedOut(players, e)
        raise == e # NoId /\ HunterCanShoot(players, e)
        waiting == waitingHunterShoot \/ raise
        end == checkGameEndLocked(voted)
    IN  /\ voteResults' = EmptyMap
        /\ waitingHunterShoot' = waiting
        /\ deadHunterID' = IF raise THEN e ELSE deadHunterID
        /\ IF waiting
           THEN /\ players' = voted
                /\ phaseEndTime' = NoTime
                /\ UNCHANGED <<phase, winningTeam, nightActionsCompleted,
                               nightActionOrder, currentNightRole>>
           ELSE IF end[1]
           THEN /\ players' = voted
                /\ phase' = PhaseEnded
                /\ winningTeam' = end[2]
                /\ UNCHANGED <<phaseEndTime, nightActionsCompleted,
                               nightActionOrder, currentNightRole>>
           ELSE /\ players' = ClearActed(voted)
                /\ phase' = PhaseNight
                /\ phaseEndTime' = NoTime
                /\ nightActionsCompleted' = {}
                /\ nightActionOrder' = getNightActionOrder(voted)
                /\ currentNightRole' =
                      IF Len(getNightActionOrder(voted)) > 0
                      THEN getNightActionOrder(voted)[1] ELSE NoRole
                /\ UNCHANGED winningTeam
        /\ UNCHANGED <<round, hunterProtection, tigerTarget, shamanVision,
                       cursedPlayer, mu>>

\* skip_phase -> GameManager.MoveToNextPhase (the handler checks no host)
SkipPhase ==
    /\ Running
    /\ exists
    /\ \E a \in Clients :
        CASE phase = PhaseNight ->
                /\ budget < MaxCmds
                /\ MoveToNextPhaseNight
                /\ budget' = budget + 1
                /\ last' = Accepted("skip_phase", a, NoId)
                /\ UNCHANGED currentNightRole
          [] phase = PhaseDay ->
                /\ budget < MaxCmds
                /\ MoveToNextPhaseDay
                /\ budget' = budget + 1
                /\ last' = Accepted("skip_phase", a, NoId)
          [] phase = PhaseVoting ->
                /\ budget < MaxCmds
                /\ \E e \in Eliminated(voteResults) :
                      /\ MoveToNextPhaseVoting(e)
                      /\ last' = Finalized(a, e, TallyKind(voteResults))
                /\ budget' = budget + 1
          [] OTHER ->
                /\ last' = Rejected("skip_phase")
                /\ UNCHANGED <<roomVars, mu, budget>>
    /\ UNCHANGED <<exists, crashed, nightResult, pre, shotKills>>
    /\ lynched' = IF phase' = PhaseVoting
                  THEN IF phase = PhaseVoting
                       THEN lynched + Cardinality({id \in Ids :
                                players[id].isAlive /\ ~players'[id].isAlive})
                       ELSE 0
                  ELSE 0
    /\ UNCHANGED inflight

\* ----------------------------------------------------------------------- vote
\* variant of Tally that leaves an entry of count zero behind
TallyKeepZero(vr, old, t) ==
    LET dec == IF old = NoId THEN vr ELSE [vr EXCEPT ![old] = @ - 1]
    IN  IF t \in DOMAIN dec THEN [dec EXCEPT ![t] = @ + 1] ELSE dec @@ (t :> 1)

\* GameManager.Vote, the tally after a's vote moves to t
Tally(vr, old, t) ==
    LET dec == IF old = NoId THEN vr
               ELSE IF vr[old] - 1 <= 0
                    THEN [x \in DOMAIN vr \ {old} |-> vr[x]]
                    ELSE [vr EXCEPT ![old] = @ - 1]
    IN  IF t \in DOMAIN dec THEN [dec EXCEPT ![t] = @ + 1] ELSE dec @@ (t :> 1)

VoteValid(a, t) ==
    /\ phase = PhaseVoting
    /\ players[a].isAlive
    /\ t \in Ids
    /\ players[t].isAlive

\* vote -> GameManager.Vote
Vote ==
    /\ Running
    /\ exists
    /\ \/ \E a \in Voters, t \in TargetIds :
            /\ VoteValid(a, t)
            /\ budget < MaxCmds
            /\ budget' = budget + 1
            /\ voteResults' = Tally(voteResults, players[a].votedFor, t)
            /\ players' = [players EXCEPT ![a].votedFor = t]
            /\ last' = [Accepted("vote", a, t) EXCEPT
                           !.note = IF players[a].votedFor = NoId THEN ""
                                    ELSE IF players[a].votedFor = t
                                    THEN "repeat" ELSE "moved"]
       \/ /\ (\E a \in Voters, t \in TargetIds : ~VoteValid(a, t)) = TRUE
          /\ last' = Rejected("vote")
          /\ UNCHANGED <<players, voteResults, budget>>
    /\ UNCHANGED <<exists, phase, round, phaseEndTime, hunterProtection,
                   tigerTarget, shamanVision, cursedPlayer,
                   nightActionsCompleted, currentNightRole, nightActionOrder,
                   waitingHunterShoot, deadHunterID, winningTeam, mu, crashed,
                   nightResult, pre, shotKills>>
    /\ UNCHANGED <<lynched, inflight>>

\* --------------------------------------------------------------- hunter shot
\* hunter_shoot handler after a successful gm.HunterShoot: gm.CheckGameEnd,
\* and on a finished game the handler itself writes Phase and WinningTeam
AfterShot(ps) ==
    LET end == checkGameEndLocked(ps)
    IN  IF end[1]
        THEN /\ phase' = PhaseEnded
             /\ winningTeam' = end[2]
        ELSE UNCHANGED <<phase, winningTeam>>

\* variant of Kill that flips the flag, so that a shot at a dead player revives it
KillFlip(ps, t) == [ps EXCEPT ![t].isAlive = ~@]

\* target.IsAlive = false
Kill(ps, t) == [ps EXCEPT ![t].isAlive = FALSE]

\* GameManager.HunterShoot as declared in manager.go: its checks
ShootValid(h, t) ==
    /\ players[h].role = RoleHunter
    /\ t \in Ids
    /\ players[t].isAlive

\* GameManager.HunterShoot as declared a second time in logic.go: its checks
ShootValidLogic(h, t) ==
    /\ players[h].role = RoleHunter
    /\ ~players[h].isAlive
    /\ t \in Ids

\* hunter_shoot -> GameManager.HunterShoot (manager.go)
HunterShoot ==
    /\ Running
    /\ exists
    /\ \/ \E h \in Ids, t \in TargetIds :
            /\ ShootValid(h, t)
            /\ budget < MaxCmds
            /\ players' = Kill(players, t)
            /\ waitingHunterShoot' = FALSE
            /\ deadHunterID' = NoId
            /\ AfterShot(Kill(players, t))
            /\ shotKills' = shotKills + 1
            /\ budget' = budget + 1
            /\ last' = Accepted("hunter_shoot", h, t)
       \/ /\ (\E h \in Ids, t \in TargetIds : ~ShootValid(h, t)) = TRUE
          /\ last' = Rejected("hunter_shoot")
          /\ UNCHANGED <<players, phase, winningTeam, waitingHunterShoot,
                         deadHunterID, shotKills, budget>>
    /\ UNCHANGED <<exists, round, phaseEndTime, voteResults, hunterProtection,
                   tigerTarget, shamanVision, cursedPlayer,
                   nightActionsCompleted, currentNightRole, nightActionOrder,
                   mu, crashed, nightResult, pre>>
    /\ lynched' = IF phase' = PhaseVoting THEN lynched ELSE 0
    /\ UNCHANGED inflight

\* hunter_shoot -> GameManager.HunterShoot (logic.go; the package declares
\* the method twice, so the call can resolve to either body)
HunterShootLogic ==
    /\ Running
    /\ exists
    /\ \/ \E h \in Ids, t \in TargetIds :
            /\ ShootValidLogic(h, t)
            /\ budget < MaxCmds
            /\ players' = Kill(players, t)
            /\ AfterShot(Kill(players, t))
            /\ shotKills' = IF players[t].isAlive THEN shotKills + 1 ELSE shotKills
            /\ budget' = budget + 1
            /\ last' = Accepted("hunter_shoot", h, t)
       \/ /\ (\E h \in Ids, t \in TargetIds : ~ShootValidLogic(h, t)) = TRUE
          /\ last' = Rejected("hunter_shoot")
          /\ UNCHANGED <<players, phase, winningTeam, shotKills, budget>>
    /\ UNCHANGED <<exists, round, phaseEndTime, voteResults, hunterProtection,
                   tigerTarget, shamanVision, cursedPlayer,
                   nightActionsCompleted, currentNightRole, nightActionOrder,
                   waitingHunterShoot, deadHunterID, mu, crashed, nightResult,
                   pre>>
    /\ lynched' = IF phase' = PhaseVoting THEN lynched ELSE 0
    /\ UNCHANGED inflight

\* ------------------------------------------------------------- night turns
\* GameManager.MarkNightActionComplete
Mark(ps, id) == [ps EXCEPT ![id].hasActedThisNight = TRUE]

\* MoveToNextNightRole: the position of the current role in the order (0 = absent)
RoleIndex(order, r) ==
    IF \E i \in 1..Len(order) : order[i] = r
    THEN CHOOSE i \in 1..Len(order) :
            order[i] = r /\ \A j \in 1..(i - 1) : order[j] # r
    ELSE 0

HasNextRole(order, r) == RoleIndex(order, r) > 0 /\ RoleIndex(order, r) < Len(order)

\* the tail shared by skip_action, night_action and curse_action:
\* MarkNightActionComplete, MoveToNextNightRole and, when every role is done,
\* MoveToNextPhase (which is then always in PhaseNight)
CompleteTurn(c, a, t, ps) ==
    /\ budget < MaxCmds
    /\ budget' = IF budget = 0 THEN 0 ELSE budget + 1
    /\ players' = Mark(ps, a)
    /\ nightActionsCompleted' = nightActionsCompleted \cup {a}
    /\ IF phase # PhaseNight
       THEN /\ last' = Rejected(c)
            /\ UNCHANGED <<currentNightRole, mu>>
       ELSE IF HasNextRole(nightActionOrder, currentNightRole)
       THEN /\ currentNightRole' =
                  nightActionOrder[RoleIndex(nightActionOrder, currentNightRole) + 1]
            /\ last' = Accepted(c, a, t)
            /\ UNCHANGED mu
       ELSE /\ currentNightRole' = NoRole
            /\ mu' = "stuck"
            /\ last' = Accepted(c, a, t)

\* skip_action
SkipAction ==
    /\ Running
    /\ exists
    /\ \/ \E a \in Ids :
            /\ currentNightRole = players[a].role
            /\ CompleteTurn("skip_action", a, NoId, players)
       \/ /\ (\E a \in Ids : currentNightRole # players[a].role) = TRUE
          /\ last' = Rejected("skip_action")
          /\ UNCHANGED <<players, nightActionsCompleted, currentNightRole, mu,
                         budget>>
    /\ UNCHANGED <<exists, phase, round, phaseEndTime, voteResults,
                   hunterProtection, tigerTarget, shamanVision, cursedPlayer,
                   nightActionOrder, waitingHunterShoot, deadHunterID,
                   winningTeam, crashed, nightResult, pre, shotKills>>
    /\ UNCHANGED <<lynched, inflight>>

\* night_action: the checks made before the action is recorded
NightActionValid(a, t) ==
    /\ currentNightRole = players[a].role
    /\ ~(players[a].role = RoleHunter /\ players[a].lastProtected = t)

\* night_action
NightAction ==
    /\ Running
    /\ exists
    /\ \/ \E a \in Ids, t \in NightTargetIds :
            LET r == players[a].role IN
            /\ NightActionValid(a, t)
            /\ shamanVision' = IF r = RoleShaman THEN t ELSE shamanVision
            /\ hunterProtection' = IF r = RoleHunter THEN t ELSE hunterProtection
            /\ tigerTarget' = IF r \in {RoleTiger, RoleAlphaTiger}
                              THEN t ELSE tigerTarget
            /\ CompleteTurn("night_action", a, t,
                   IF r = RoleHunter
                   THEN [players EXCEPT ![a].lastProtected = t] ELSE players)
       \/ /\ (\E a \in Ids, t \in NightTargetIds : ~NightActionValid(a, t)) = TRUE
          /\ last' = Rejected("night_action")
          /\ UNCHANGED <<players, nightActionsCompleted, currentNightRole,
                         mu, shamanVision, hunterProtection, tigerTarget,
                         budget>>
    /\ UNCHANGED <<exists, phase, round, phaseEndTime, voteResults,
                   cursedPlayer, nightActionOrder, waitingHunterShoot,
                   deadHunterID, winningTeam, crashed, nightResult, pre, shotKills>>
    /\ UNCHANGED <<lynched, inflight>>

\* variant of CurseValid without the one-shot test
CurseValidAgain(a) == players[a].role = RoleAlphaTiger

\* curse_action: the checks made by the handler
CurseValid(a) == players[a].role = RoleAlphaTiger /\ ~players[a].hasUsedCurse

\* curse_action
CurseAction ==
    /\ Running
    /\ exists
    /\ \/ \E a \in Ids, t \in NightTargetIds :
            LET hit == t \in Ids /\ players[t].isAlive IN
            /\ CurseValid(a)
            /\ cursedPlayer' = IF hit THEN t ELSE cursedPlayer
            /\ CompleteTurn("curse_action", a, t,
                   IF hit
                   THEN [[players EXCEPT ![t].isCursed = TRUE]
                                  EXCEPT ![a].hasUsedCurse = TRUE]
                   ELSE players)
       \/ /\ (\E a \in Ids : ~CurseValid(a)) = TRUE
          /\ last' = Rejected("curse_action")
          /\ UNCHANGED <<players, nightActionsCompleted, currentNightRole,
                         mu, cursedPlayer, budget>>
    /\ UNCHANGED <<exists, phase, round, phaseEndTime, voteResults,
                   hunterProtection, tigerTarget, shamanVision,
                   nightActionOrder, waitingHunterShoot, deadHunterID,
                   winningTeam, crashed, nightResult, pre, shotKills>>
    /\ UNCHANGED <<lynched, inflight>>

\* ------------------------------------------------------------ night resolver
\* variant of LuckySave that forgets whether the AlphaTiger used its curse
LuckySaveAnyAlpha(ps, tt, sv) ==
    /\ tt \in DOMAIN ps
    /\ ps[tt].role = RoleShaman
    /\ sv # NoId
    /\ sv \in DOMAIN ps
    /\ ps[sv].role = RoleAlphaTiger

\* ProcessNightPhase, step 1: the victim is the Shaman and the Shaman saw an
\* AlphaTiger that still holds its curse
LuckySave(ps, tt, sv) ==
    /\ tt \in DOMAIN ps
    /\ ps[tt].role = RoleShaman
    /\ sv # NoId
    /\ sv \in DOMAIN ps
    /\ ps[sv].role = RoleAlphaTiger
    /\ ~ps[sv].hasUsedCurse

\* ProcessNightPhase, step 1: the kill is attempted on a target that is not a
\* player of the room, and victim.IsAlive = false dereferences nil
NightPanics(ps, tt, hp) == tt # NoId /\ hp # tt /\ tt \notin DOMAIN ps

\* ProcessNightPhase, step 1: the id written to result.Killed
NightKilled(ps, tt, hp, sv) ==
    IF tt # NoId /\ hp # tt /\ ~LuckySave(ps, tt, sv) THEN tt ELSE NoId

\* variant of VisionResult in which the AlphaTiger always reads as a tiger
VisionResultNoHiding(ps, sv) ==
    IF sv = NoId \/ sv \notin DOMAIN ps THEN ""
    ELSE IF ps[sv].isCursed THEN "tiger"
    ELSE IF ps[sv].role \in {RoleAlphaTiger, RoleTiger} THEN "tiger"
    ELSE "human"

\* ProcessNightPhase, step 2: what the Shaman is told about player sv
VisionResult(ps, sv) ==
    IF sv = NoId \/ sv \notin DOMAIN ps THEN ""
    ELSE IF ps[sv].isCursed THEN "tiger"
    ELSE IF ps[sv].role = RoleAlphaTiger
         THEN (IF ps[sv].hasUsedCurse THEN "tiger" ELSE "human")
    ELSE IF ps[sv].role = RoleTiger THEN "tiger"
    ELSE "human"

\* the NightResult that ProcessNightPhase returns
NightResultOf(ps, tt, hp, sv) ==
    [killed |-> NightKilled(ps, tt, hp, sv),
     protected |-> (tt # NoId /\ hp = tt),
     shamanSaved |-> (tt # NoId /\ hp # tt /\ LuckySave(ps, tt, sv)),
     shamanVision |-> IF sv # NoId /\ sv \in DOMAIN ps THEN UserName(sv) ELSE NoId,
     visionResult |-> VisionResult(ps, sv)]

\* GameManager.ProcessNightPhase called with gm.mu free
ProcessNightPhase ==
    /\ Running
    /\ exists
    /\ pre' = [players |-> players, tigerTarget |-> tigerTarget,
               hunterProtection |-> hunterProtection,
               shamanVision |-> shamanVision]
    /\ last' = Accepted("process_night", NoId, NoId)
    /\ IF NightPanics(players, tigerTarget, hunterProtection)
       THEN /\ crashed' = TRUE
            /\ UNCHANGED <<players, tigerTarget, hunterProtection,
                           shamanVision, nightResult>>
       ELSE /\ nightResult' = NightResultOf(players, tigerTarget,
                                            hunterProtection, shamanVision)
            /\ players' =
                 LET k == NightKilled(players, tigerTarget, hunterProtection,
                                      shamanVision)
                 IN  IF k = NoId THEN players ELSE Kill(players, k)
            /\ tigerTarget' = NoId
            /\ hunterProtection' = NoId
            /\ shamanVision' = NoId
            /\ UNCHANGED crashed
    /\ UNCHANGED <<exists, phase, round, phaseEndTime, voteResults,
                   cursedPlayer, nightActionsCompleted, currentNightRole,
                   nightActionOrder, waitingHunterShoot, deadHunterID,
                   winningTeam, mu, shotKills, budget>>
    /\ UNCHANGED <<lynched, inflight>>

Next ==
    \/ CreateRoom
    \/ JoinRoom
    \/ StartGame
    \/ SkipPhase
    \/ Vote
    \/ HunterShoot
    \/ HunterShootLogic
    \/ SkipAction
    \/ NightAction
    \/ CurseAction

Spec == Init /\ [][Next]_vars

\* ---------------------------------------------- the night resolver on its own
\* A room in Night with every turn taken, as the handlers leave it for the
\* resolver: n players with the roles of assignRoles, at most MaxDead of them
\* dead, each intent slot unset, a player or Ghost, and the curse either
\* unused or spent on some player.
NightRoom(n, dead, tt, hp, sv, c) ==
    [id \in 1..n |->
        [AssignedPlayer(NewPlayer, RoleList(n)[id])
            EXCEPT !.isAlive = id \notin dead,
                   !.isCursed = (id = c),
                   !.hasUsedCurse = (c # NoId /\ RoleList(n)[id] = RoleAlphaTiger),
                   !.lastProtected =
                      IF RoleList(n)[id] = RoleHunter THEN hp ELSE NoId,
                   !.hasActedThisNight = (id \notin dead)]]

IntentIds(n) == (1..n) \cup {NoId, n + 1}

InitNight ==
    \E n \in {MinPlayers, AlphaMinPlayers} :
    \E dead \in {d \in SUBSET (1..n) : Cardinality(d) <= MaxDead} :
    \E tt \in IntentIds(n), hp \in IntentIds(n), sv \in IntentIds(n) :
    \E c \in IF n >= AlphaMinPlayers THEN 0..n ELSE {NoId} :
        /\ exists = TRUE
        /\ players = NightRoom(n, dead, tt, hp, sv, c)
        /\ phase = PhaseNight
        /\ round = 1
        /\ phaseEndTime = NoTime
        /\ voteResults = EmptyMap
        /\ hunterProtection = hp
        /\ tigerTarget = tt
        /\ shamanVision = sv
        /\ cursedPlayer = c
        /\ nightActionsCompleted = (1..n) \ dead
        /\ currentNightRole = NoRole
        /\ nightActionOrder = getNightActionOrder(NightRoom(n, dead, tt, hp, sv, c))
        /\ waitingHunterShoot = FALSE
        /\ deadHunterID = NoId
        /\ winningTeam = ""
        /\ mu = "free"
        /\ crashed = FALSE
        /\ nightResult = NoResult
        /\ pre = NoPre
        /\ last = NoCmd
        /\ shotKills = 0
        /\ budget = 1
        /\ lynched = 0
        /\ inflight = Idle

NextNight == ProcessNightPhase

SpecNight == InitNight /\ [][NextNight]_vars

\* ----------------------------------------------------- what clients are sent
\* json.Marshal of a Player: every game field has a json tag, so each one is
\* written (omitempty only drops a field that holds its zero value)
PlayerJSON(p) ==
    [role |-> p.role, isAlive |-> p.isAlive, isReady |-> p.isReady,
     isCursed |-> p.isCursed, hasUsedCurse |-> p.hasUsedCurse, canShoot |-> p.canShoot,
     lastProtected |-> p.lastProtected,
     hasActedThisNight |-> p.hasActedThisNight, votedFor |-> p.votedFor]

\* broadcastToRoom(roomCode, event, room) as Hub.Run delivers it to client c:
\* the same bytes, the marshalled room with all its players, go to every
\* client of the room
Delivered(c, ps) == [id \in DOMAIN ps |-> PlayerJSON(ps[id])]

\* ------------------------------------------- nights driven through logic.go
\* GameManager.SetHunterProtection: the sender must be the Hunter, and the
\* target must differ from the Hunter's LastProtected
SetHunterProtection ==
    /\ Running
    /\ exists
    /\ \/ \E h \in Ids, t \in NightTargetIds :
            /\ players[h].role = RoleHunter
            /\ IF players[h].lastProtected = t
               THEN /\ last' = [Rejected("set_hunter_protection")
                                   EXCEPT !.actor = h, !.target = t]
                    /\ UNCHANGED <<players, hunterProtection>>
               ELSE /\ hunterProtection' = t
                    /\ players' = [players EXCEPT ![h].lastProtected = t]
                    /\ last' = Accepted("set_hunter_protection", h, t)
       \/ /\ (\E h \in Ids : players[h].role # RoleHunter) = TRUE
          /\ last' = Rejected("set_hunter_protection")
          /\ UNCHANGED <<players, hunterProtection>>
    /\ UNCHANGED <<exists, phase, round, phaseEndTime, voteResults,
                   tigerTarget, shamanVision, cursedPlayer,
                   nightActionsCompleted, currentNightRole, nightActionOrder,
                   waitingHunterShoot, deadHunterID, winningTeam, mu, crashed,
                   nightResult, pre, shotKills, budget>>
    /\ UNCHANGED <<lynched, inflight>>

\* successive nights: the Hunter's protection, then the resolver
NextNights == SetHunterProtection \/ ProcessNightPhase

SpecNights == InitNight /\ [][NextNights]_vars

\* ------------------------------------------------ the end condition alone
\* the outcome of a CheckGameEnd call: ok = isEnded, note = the winner
Checked(end) ==
    [cmd |-> "check_game_end", actor |-> NoId, target |-> NoId,
     ok |-> end[1], note |-> end[2]]

\* GameManager.CheckGameEnd as declared in manager.go
CheckGameEnd ==
    /\ Running
    /\ exists
    /\ last' = Checked(checkGameEndLocked(players))
    /\ UNCHANGED <<exists, roomVars, mu, crashed, nightResult, pre, shotKills,
                   budget>>
    /\ UNCHANGED <<lynched, inflight>>

\* GameManager.CheckGameEnd as declared a second time in logic.go: the same
\* counts and tests, the winners spelled "tigers" and "humans"
CheckGameEndLogic ==
    /\ Running
    /\ exists
    /\ last' = LET end == checkGameEndLocked(players)
               IN  Checked(<<end[1], IF end[1] THEN end[2] \o "s" ELSE "">>)
    /\ UNCHANGED <<exists, roomVars, mu, crashed, nightResult, pre, shotKills,
                   budget>>
    /\ UNCHANGED <<lynched, inflight>>

\* a started room with any set of its players dead and no intent recorded
InitEnd ==
    \E n \in {MinPlayers, AlphaMinPlayers} :
    \E dead \in SUBSET (1..n) :
        /\ exists = TRUE
        /\ players = NightRoom(n, dead, NoId, NoId, NoId, NoId)
        /\ phase = PhaseNight
        /\ round = 1
        /\ phaseEndTime = NoTime
        /\ voteResults = EmptyMap
        /\ hunterProtection = NoId
        /\ tigerTarget = NoId
        /\ shamanVision = NoId
        /\ cursedPlayer = NoId
        /\ nightActionsCompleted = (1..n) \ dead
        /\ currentNightRole = NoRole
        /\ nightActionOrder = getNightActionOrder(
                                  NightRoom(n, dead, NoId, NoId, NoId, NoId))
        /\ waitingHunterShoot = FALSE
        /\ deadHunterID = NoId
        /\ winningTeam = ""
        /\ mu = "free"
        /\ crashed = FALSE
        /\ nightResult = NoResult
        /\ pre = NoPre
        /\ last = NoCmd
        /\ shotKills = 0
        /\ budget = 1
        /\ lynched = 0
        /\ inflight = Idle

NextEnd == CheckGameEnd \/ CheckGameEndLogic

SpecEnd == InitEnd /\ [][NextEnd]_vars

\* =================================================================== claims
Holders(r) == {id \in Ids : players[id].role = r}

Alive(ps) == {id \in DOMAIN ps : ps[id].isAlive}

Resolved == last.cmd = "process_night"

\* the alive flags the resolver changed
Flipped == {id \in Ids : players[id].isAlive # pre.players[id].isAlive}

\* the lucky-save condition on the room the resolver found
SawHiddenAlpha ==
    /\ pre.tigerTarget \in DOMAIN pre.players
    /\ pre.players[pre.tigerTarget].role = RoleShaman
    /\ pre.shamanVision \in DOMAIN pre.players
    /\ pre.players[pre.shamanVision].role = RoleAlphaTiger
    /\ ~pre.players[pre.shamanVision].hasUsedCurse

\* C2: night resolution changes at most one alive flag: with tigerTarget
\* unset nobody dies and killed is empty; with tigerTarget = hunterProtection
\* protected is true, killed is empty and nobody dies; otherwise, unless the
\* lucky-save applies, exactly the target is dead and killed is its id.
C2_NightKill ==
    Resolved =>
        /\ Cardinality(Flipped) <= 1
        /\ pre.tigerTarget = NoId =>
              Flipped = {} /\ nightResult.killed = NoId
        /\ (pre.tigerTarget # NoId /\ pre.tigerTarget = pre.hunterProtection) =>
              /\ nightResult.protected
              /\ nightResult.killed = NoId
              /\ Flipped = {}
        /\ (/\ pre.tigerTarget # NoId
            /\ pre.tigerTarget # pre.hunterProtection
            /\ ~SawHiddenAlpha) =>
              /\ nightResult.killed = pre.tigerTarget
              /\ Flipped \subseteq {pre.tigerTarget}
              /\ pre.tigerTarget \in Ids => ~players[pre.tigerTarget].isAlive

\* C3: with tigerTarget set and different from hunterProtection, the result
\* has shamanSaved and the target is not killed iff the target is the Shaman,
\* shamanVision is set and the viewed player is an AlphaTiger that has not
\* used its curse; a targeted Shaman who views an AlphaTiger that has used
\* its curse dies.
C3_LuckySave ==
    (Resolved /\ pre.tigerTarget # NoId /\ pre.tigerTarget # pre.hunterProtection) =>
        /\ (/\ nightResult.shamanSaved
            /\ nightResult.killed = NoId
            /\ pre.tigerTarget \in Ids
            /\ players[pre.tigerTarget].isAlive
                  = pre.players[pre.tigerTarget].isAlive)
           <=> SawHiddenAlpha
        /\ (/\ pre.tigerTarget \in Ids
            /\ pre.players[pre.tigerTarget].role = RoleShaman
            /\ pre.shamanVision \in Ids
            /\ pre.players[pre.shamanVision].role = RoleAlphaTiger
            /\ pre.players[pre.shamanVision].hasUsedCurse) =>
              /\ ~players[pre.tigerTarget].isAlive
              /\ nightResult.killed = pre.tigerTarget

\* C3 witness: a living Shaman was targeted, saw the hidden AlphaTiger and
\* was saved
C3_Witness ==
    /\ Resolved
    /\ nightResult.shamanSaved
    /\ pre.tigerTarget \in Ids
    /\ players[pre.tigerTarget].role = RoleShaman
    /\ players[pre.tigerTarget].isAlive

\* C4: with shamanVision set to player t, visionResult is "tiger" if t is
\* cursed; otherwise for the AlphaTiger "tiger" exactly when it has used its
\* curse and "human" when not; otherwise "tiger" for a Tiger and "human" for
\* every other role; with shamanVision unset visionResult is empty.
C4_Vision ==
    (Resolved /\ ~crashed) =>
        LET t == pre.shamanVision IN
        /\ t = NoId => nightResult.visionResult = ""
        /\ t \in DOMAIN pre.players =>
              nightResult.visionResult =
                 IF pre.players[t].isCursed THEN "tiger"
                 ELSE IF pre.players[t].role = RoleAlphaTiger
                      THEN (IF pre.players[t].hasUsedCurse THEN "tiger" ELSE "human")
                 ELSE IF pre.players[t].role = RoleTiger THEN "tiger"
                 ELSE "human"

\* C4 witness: the Shaman viewed an uncursed AlphaTiger that had used its
\* curse and was told "tiger"
C4_Witness ==
    /\ Resolved
    /\ ~crashed
    /\ pre.shamanVision \in Ids
    /\ pre.players[pre.shamanVision].role = RoleAlphaTiger
    /\ pre.players[pre.shamanVision].hasUsedCurse
    /\ ~pre.players[pre.shamanVision].isCursed
    /\ nightResult.visionResult = "tiger"

\* this step is the finalization of the Voting phase
Finalizing == phase = PhaseVoting /\ last'.cmd = "skip_phase"

TopTargets == {t \in DOMAIN voteResults : \A u \in DOMAIN voteResults :
                                             voteResults[u] <= voteResults[t]}

\* C5: when Voting is finalized and two or more targets share the highest
\* count, every player alive before is alive after, the tally is cleared and
\* the phase advances to Night.
C5_TieNoElimination ==
    [][(Finalizing /\ Cardinality(TopTargets) >= 2) =>
          /\ \A id \in Ids : players[id].isAlive => players'[id].isAlive
          /\ voteResults' = EmptyMap
          /\ phase' = PhaseNight]_vars

\* C6: when Voting is finalized and one target has the strictly greatest
\* count, that player and only that player becomes dead; with zero votes
\* nobody is eliminated; in every case voteResults is then empty and every
\* votedFor is unset.
C6_Finalization ==
    [][Finalizing =>
          /\ voteResults' = EmptyMap
          /\ \A id \in Ids : players'[id].votedFor = NoId
          /\ DOMAIN voteResults = {} => Alive(players') = Alive(players)
          /\ \A t \in TopTargets :
                Cardinality(TopTargets) = 1 =>
                   Alive(players') = Alive(players) \ {t}]_vars

\* C6 witness: a finalization found two votes against one for a living
\* player and eliminated that player
C6_Witness ==
    /\ last.cmd = "skip_phase"
    /\ last.note = "top2"
    /\ last.target \in Ids
    /\ ~players[last.target].isAlive
    /\ voteResults = EmptyMap

\* C7: whenever waitingHunterShoot is true, deadHunterId names a dead Hunter
\* whose canShoot is true, and no command changes the phase until a
\* hunter_shoot from that Hunter has been accepted.
C7_WaitingForHunter ==
    [][waitingHunterShoot =>
          /\ deadHunterID \in Ids
          /\ ~players[deadHunterID].isAlive
          /\ players[deadHunterID].role = RoleHunter
          /\ players[deadHunterID].canShoot
          /\ phase' # phase =>
                /\ last'.cmd = "hunter_shoot"
                /\ last'.ok
                /\ last'.actor = deadHunterID]_vars

\* C8: a hunter_shoot is accepted only while waitingHunterShoot is true, from
\* the player deadHunterId, against a living target; otherwise it is rejected
\* and no alive flag changes.
C8_ShootGuard ==
    [][last'.cmd = "hunter_shoot" =>
          IF last'.ok
          THEN /\ waitingHunterShoot
               /\ last'.actor = deadHunterID
               /\ last'.target \in Ids
               /\ players[last'.target].isAlive
          ELSE Alive(players') = Alive(players)]_vars

\* C9: an accepted hunter_shoot sets that Hunter's canShoot to false and
\* clears waitingHunterShoot, and hunter_shoot kills at most one player in a
\* game.
C9_OneShot ==
    [][/\ (last'.cmd = "hunter_shoot" /\ last'.ok) =>
             /\ ~players'[last'.actor].canShoot
             /\ ~waitingHunterShoot'
       /\ shotKills' <= 1]_vars

\* C10: after a Hunter with canShoot is lynched in Voting and that Hunter's
\* hunter_shoot is accepted, the same command takes the deferred transition:
\* Ended if the end condition holds, otherwise Night with nightActionOrder
\* recomputed and currentNightRole at its head.
C10_DeferredTransition ==
    [][(/\ phase = PhaseVoting
        /\ waitingHunterShoot
        /\ last'.cmd = "hunter_shoot"
        /\ last'.ok
        /\ last'.actor = deadHunterID) =>
          IF checkGameEndLocked(players')[1]
          THEN phase' = PhaseEnded
          ELSE /\ phase' = PhaseNight
               /\ nightActionOrder' = getNightActionOrder(players')
               /\ currentNightRole' = nightActionOrder'[1]]_vars

\* C11: a start_game or skip_phase sent by a player who is not the host is
\* rejected, and the rejected command leaves the whole room as it was.
C11_HostOnly ==
    [][last'.cmd \in {"start_game", "skip_phase"} =>
          /\ last'.ok => last'.actor = HostID
          /\ ~last'.ok => UNCHANGED roomVars]_vars

\* C12: a skip_phase attempted while waitingHunterShoot is true returns an
\* error and leaves the room unchanged: nobody is eliminated, no vote is
\* consumed, the phase is not advanced.
C12_NoAdvanceWhileWaiting ==
    [][(waitingHunterShoot /\ last'.cmd = "skip_phase") =>
          /\ ~last'.ok
          /\ UNCHANGED roomVars]_vars

\* C13: StartGame is rejected and leaves the room unchanged when the room has
\* fewer than 5 players or its phase is not Waiting.
C13_StartOnlyFromWaiting ==
    [][(/\ last'.cmd = "start_game"
        /\ (Cardinality(Ids) < 5 \/ phase # PhaseWaiting)) =>
          /\ ~last'.ok
          /\ UNCHANGED roomVars]_vars

\* this step is an accepted start_game
Started == last'.cmd = "start_game" /\ last'.ok

C15_PhaseOrder ==
    [][phase' # phase =>
          /\ phase # PhaseEnded
          /\ phase' # PhaseWaiting
          /\ \/ phase' = PhaseEnded
             \/ <<phase, phase'>> \in {<<PhaseWaiting, PhaseDay>>,
                                       <<PhaseDay, PhaseVoting>>,
                                       <<PhaseVoting, PhaseNight>>,
                                       <<PhaseNight, PhaseDay>>}]_vars

\* this step advances the phase out of Night: a skip_phase in Night, or the
\* turn of the last role of nightActionOrder being completed
LeavingNight ==
    /\ phase = PhaseNight
    /\ \/ last'.cmd = "skip_phase"
       \/ /\ last'.cmd \in {"skip_action", "night_action", "curse_action"}
          /\ last'.ok
          /\ ~HasNextRole(nightActionOrder, currentNightRole)

\* C16: when the phase is advanced out of Night the operation completes and
\* leaves the room either paused in Night with waitingHunterShoot set, or
\* Ended, or in Day with round one higher, a phase timer set,
\* nightActionsCompleted empty and every hasActedThisNight false.
C16_NightAdvance ==
    [][LeavingNight =>
          /\ mu' = "free"
          /\ ~crashed'
          /\ \/ phase' = PhaseNight /\ waitingHunterShoot'
             \/ phase' = PhaseEnded
             \/ /\ phase' = PhaseDay
                /\ round' = round + 1
                /\ phaseEndTime' # NoTime
                /\ nightActionsCompleted' = {}
                /\ \A id \in Ids : ~players'[id].hasActedThisNight]_vars

RECURSIVE SumVotes(_)
\* the sum of the counts of a tally
SumVotes(vr) ==
    IF DOMAIN vr = {} THEN 0
    ELSE LET t == CHOOSE x \in DOMAIN vr : TRUE
         IN  vr[t] + SumVotes([x \in DOMAIN vr \ {t} |-> vr[x]])

\* the living players whose vote is recorded
Ballots == {id \in Ids : players[id].isAlive /\ players[id].votedFor # NoId}

\* C17: at every moment during Voting the sum of the counts in voteResults
\* equals the number of living players whose votedFor is set, and so never
\* exceeds the number of living players.
C17_TallyMatchesBallots ==
    phase = PhaseVoting =>
        /\ SumVotes(voteResults) = Cardinality(Ballots)
        /\ SumVotes(voteResults) <= Cardinality(Alive(players))

\* C18: votes are last-write-wins: after an accepted vote(a, t), the same
\* vote applied again yields the same voteResults and votedFor, and a vote
\* (a, t2) applied next yields what vote(a, t2) alone would have yielded,
\* with no entry of count zero left behind.
C18_LastWriteWins ==
    [][(last'.cmd = "vote" /\ last'.ok) =>
          LET a == last'.actor
              t == last'.target
          IN  /\ players'[a].votedFor = t
              /\ Tally(voteResults', players'[a].votedFor, t) = voteResults'
              /\ \A x \in DOMAIN voteResults' : voteResults'[x] > 0
              /\ \A t2 \in TargetIds :
                    VoteValid(a, t2) =>
                       /\ Tally(voteResults', t, t2)
                             = Tally(voteResults, players[a].votedFor, t2)
                       /\ \A x \in DOMAIN Tally(voteResults', t, t2) :
                             Tally(voteResults', t, t2)[x] > 0]_vars

\* C18 witness: a player moved its vote to another target and the only
\* entry of the tally is the new target with count one
C18_Witness ==
    /\ last.cmd = "vote"
    /\ last.ok
    /\ last.note = "moved"
    /\ players[last.actor].votedFor = last.target
    /\ DOMAIN voteResults = {last.target}
    /\ voteResults[last.target] = 1

\* C19: a night_action is accepted only in Night, from a living player whose
\* role equals currentNightRole; in every other case it is rejected and
\* changes nothing in the room.
C19_NightActionGuard ==
    [][last'.cmd = "night_action" =>
          IF last'.ok
          THEN /\ phase = PhaseNight
               /\ players[last'.actor].isAlive
               /\ players[last'.actor].role = currentNightRole
          ELSE UNCHANGED roomVars]_vars

\* the curse bookkeeping of the room
CurseState ==
    <<[id \in Ids |-> players[id].isCursed],
      [id \in Ids |-> players[id].hasUsedCurse],
      cursedPlayer, nightActionsCompleted, currentNightRole>>

\* C20: a curse_action is accepted only in Night, on the AlphaTiger's turn,
\* from a living AlphaTiger that has not used its curse; otherwise it is
\* rejected and leaves the cursed flags, hasUsedCurse, cursedPlayer,
\* nightActionsCompleted and currentNightRole unchanged.
C20_CurseGuard ==
    [][last'.cmd = "curse_action" =>
          IF last'.ok
          THEN /\ phase = PhaseNight
               /\ currentNightRole = RoleAlphaTiger
               /\ players[last'.actor].role = RoleAlphaTiger
               /\ players[last'.actor].isAlive
               /\ ~players[last'.actor].hasUsedCurse
          ELSE UNCHANGED CurseState]_vars

\* C21: lastProtected is the target the Hunter protected in the night before
\* (unset if the Hunter protected nobody that night): the Hunter's first
\* protection of a night is rejected exactly when its target was protected
\* in the night before, and accepted for any other target.
C21_AntiRepeat ==
    [][(/\ last'.cmd = "set_hunter_protection"
        /\ last'.actor # NoId
        /\ hunterProtection = NoId
        /\ pre # NoPre) =>
          (last'.ok <=> last'.target # pre.hunterProtection)]_vars

\* the living players of the tiger team, and the other living players
LivingTigers ==
    {id \in Ids : players[id].isAlive
                    /\ players[id].role \in {RoleTiger, RoleAlphaTiger}}

LivingHumans == Alive(players) \ LivingTigers

\* C22: the end condition answers "humans win" exactly when no Tiger or
\* AlphaTiger is alive, "tigers win" exactly when a tiger-team player is
\* alive and the living tigers are at least as many as the living humans,
\* and "game continues" in every other case.
C22_EndCondition ==
    last.cmd = "check_game_end" =>
        LET t == Cardinality(LivingTigers)
            h == Cardinality(LivingHumans)
        IN  /\ (last.ok /\ last.note \in {"human", "humans"}) <=> t = 0
            /\ (last.ok /\ last.note \in {"tiger", "tigers"}) <=> (t > 0 /\ t >= h)
            /\ (~last.ok /\ last.note = "") <=> (t > 0 /\ t < h)

\* C22 witness: the check found as many living tigers as living humans, at
\* least one of each, and gave the game to the tigers
C22_Witness ==
    /\ last.cmd = "check_game_end"
    /\ last.ok
    /\ last.note = "tiger"
    /\ Cardinality(LivingTigers) >= 1
    /\ Cardinality(LivingTigers) = Cardinality(LivingHumans)

\* C23: until the game has Ended nothing delivered to a player P depends on
\* another player's role or private flags: two runs of the same commands that
\* differ only in the roles the shuffle dealt to the other players deliver
\* the same game_started message to P.
C23_HiddenRoles ==
    [][Started =>
          \A p \in Ids :
             \A roles \in Shuffle(RoleList(Cardinality(Ids))) :
                roles[p] = players'[p].role =>
                   Delivered(p, players') = Delivered(p, Dealt(players, roles))]_vars

\* C24: every command that is rejected with an error leaves the room exactly
\* as it was, and no command makes the controller crash.
C24_RejectedIsNoOp ==
    [][/\ (last'.cmd # "" /\ ~last'.ok) => UNCHANGED roomVars
       /\ ~crashed']_vars

\* C25: CreateRoom always adds one new room in phase Waiting whose only
\* player is the host (alive, not ready), under a code that no existing room
\* uses: it never replaces, removes or modifies a room already in the registry.
C25_CreateRoomAddsOnly ==
    [][last'.cmd = "create_room" =>
          /\ ~exists
          /\ exists'
          /\ phase' = PhaseWaiting
          /\ DOMAIN players' = {HostID}
          /\ players'[HostID].isAlive
          /\ ~players'[HostID].isReady]_vars

NightTurns == <<RoleHunter, RoleTiger, RoleAlphaTiger, RoleShaman>>

LivingTurns(ps) ==
    SelectSeq(NightTurns,
              LAMBDA r : \E id \in DOMAIN ps : ps[id].isAlive /\ ps[id].role = r)

InOrder(r, order) == \E i \in 1..Len(order) : order[i] = r

TurnCommands == {"night_action", "curse_action", "skip_action"}

\* the role whose turn follows r in the order (unset after the last one)
TurnAfter(order, r) ==
    LET at == {i \in 1..Len(order) : order[i] = r}
    IN  IF at = {} THEN NoRole
        ELSE LET i == CHOOSE k \in at : \A j \in at : k <= j
             IN  IF i < Len(order) THEN order[i + 1] ELSE NoRole

\* C27: within one Night, currentNightRole advances exactly one position in
\* nightActionOrder per completed turn, and only when the holder of the
\* current role submits an action, a curse or a skip; unless the phase is
\* skipped, the night is resolved only after every role of the order has had
\* its turn, and no role's turn is skipped by another player's command.
C27_TurnAdvance ==
    [][(/\ phase = PhaseNight
        /\ currentNightRole' # currentNightRole
        /\ last'.cmd \notin {"skip_phase", "create_room"}) =>
          /\ last'.cmd \in TurnCommands
          /\ last'.actor \in Ids
          /\ players[last'.actor].role = currentNightRole
          /\ currentNightRole' = TurnAfter(nightActionOrder, currentNightRole)]_vars

\* a step inside one game: start_game deals a new game and create_room
\* constructs a new room
SameGame == last'.cmd \notin {"start_game", "create_room"}

UsedCurse(ps) == {id \in DOMAIN ps : ps[id].hasUsedCurse}

Cursed(ps) == {id \in DOMAIN ps : ps[id].isCursed}

\* a step on which a curse takes effect
CurseApplied ==
    \/ UsedCurse(players') # UsedCurse(players)
    \/ Cursed(players') # Cursed(players)
    \/ /\ last'.cmd = "curse_action"
       /\ last'.actor \in UsedCurse(players')

\* C28: within a game hasUsedCurse never goes from true back to false and is
\* only ever true for a player whose role is AlphaTiger; at most one
\* curse_action is ever applied in a game, so at most one player ever has
\* cursed = true.
C28_OneCurse ==
    [][/\ \A id \in UsedCurse(players') : players'[id].role = RoleAlphaTiger
       /\ Cardinality(Cursed(players')) <= 1
       /\ SameGame =>
            /\ UsedCurse(players) \subseteq UsedCurse(players')
            /\ Cursed(players) \subseteq Cursed(players')
            /\ CurseApplied =>
                  /\ UsedCurse(players) = {}
                  /\ Cursed(players) = {}
                  /\ Cardinality(UsedCurse(players')) = 1
                  /\ Cardinality(Cursed(players')) = 1]_vars

\* the curse was applied earlier in the game and its flags are still set
\* after a later command of another kind
C28_Witness ==
    /\ phase \in {PhaseDay, PhaseVoting, PhaseNight}
    /\ UsedCurse(players) # {}
    /\ Cursed(players) # {}
    /\ last.cmd \notin {"curse_action", "start_game", "create_room", ""}
    /\ last.ok

\* C29: after night resolution all night intent slots (tigerTarget,
\* hunterProtection, shamanVision and cursedPlayer) are unset, while every
\* player's cursed flag is exactly what it was before the resolution.
C29_IntentsCleared ==
    [][(last'.cmd = "process_night" /\ ~crashed') =>
          /\ tigerTarget' = NoId
          /\ hunterProtection' = NoId
          /\ shamanVision' = NoId
          /\ cursedPlayer' = NoId
          /\ \A id \in Ids : players'[id].isCursed = players[id].isCursed]_vars

\* the end condition on the living players of ps: no tiger is alive, or the
\* living tigers are at least as many as the living humans
EndConditionOn(ps) ==
    LET t == Cardinality({id \in DOMAIN ps :
                 ps[id].isAlive /\ ps[id].role \in {RoleTiger, RoleAlphaTiger}})
        h == Cardinality({id \in DOMAIN ps :
                 ps[id].isAlive /\ ps[id].role \notin {RoleTiger, RoleAlphaTiger}})
    IN  t = 0 \/ t >= h

\* C30: whenever the phase changes to Day, Voting or Night the end condition
\* on the players alive at that moment is false: a room in which no tiger is
\* alive, or in which the living tigers are at least as many as the living
\* humans, never enters Day, Voting or Night.
C30_NoEntryWhenEnded ==
    [][(phase' # phase /\ phase' \in {PhaseDay, PhaseVoting, PhaseNight}) =>
          ~EndConditionOn(players')]_vars

TargetCommands == {"night_action", "curse_action", "hunter_shoot"}

\* C31: a night_action, curse_action or hunter_shoot whose target is unknown
\* or dead is rejected as an invalid target (so that a night resolution can
\* only report as killed a player of the room who was alive, and a dead
\* player is never killed a second time).
C31_InvalidTarget ==
    [][(/\ last'.cmd \in TargetCommands
        /\ last'.target # NoId
        /\ \/ last'.target \notin Ids
           \/ ~players[last'.target].isAlive) =>
          /\ ~last'.ok
          /\ UNCHANGED <<tigerTarget, hunterProtection, shamanVision,
                         cursedPlayer>>]_vars

\* C33: no GameManager operation blocks forever: every operation that
\* acquires the manager lock releases it and never acquires it again while
\* holding it, so after any operation (a phase advance out of Night included)
\* the lock is free for the next one.
C33_LockReleased == exists => mu = "free"

\* the players this step takes from alive to dead
Dying == {id \in Ids : players[id].isAlive /\ ~players'[id].isAlive}

\* C34: between entering Voting and leaving it, at most one player is
\* eliminated by vote finalization, however often skip_phase is issued and
\* whether or not votes are cast or a hunter shot happens in between.
C34_OneLynch ==
    [][(phase = PhaseVoting /\ last'.cmd = "skip_phase" /\ Dying # {}) =>
          /\ lynched = 0
          /\ Cardinality(Dying) = 1]_vars

\* C35: during Night, whenever currentNightRole is set, some living player
\* holds that role, so the night never waits on a dead player.
C35_TurnHolderAlive ==
    (phase = PhaseNight /\ currentNightRole # NoRole) =>
        \E id \in Ids : players[id].isAlive /\ players[id].role = currentNightRole

\* C36: in every reachable state phase = Ended if and only if winningTeam is
\* set, and when set winningTeam agrees with the end condition on the living
\* players: "human" when no tiger-team player is alive, "tiger" when at least
\* one is alive and the living tigers are at least as many as the living
\* humans.
C36_WinnerMatches ==
    /\ phase = PhaseEnded <=> winningTeam # ""
    /\ winningTeam # "" =>
          LET t == Cardinality(LivingTigers)
              h == Cardinality(LivingHumans)
          IN  /\ winningTeam = "human" <=> t = 0
              /\ winningTeam = "tiger" <=> (t > 0 /\ t >= h)

\* C37: a player's alive flag never goes from false to true: a player who
\* has died stays dead through every later command and phase change, so the
\* number of living players of a room never increases once the game has
\* started.
C37_DeadStayDead ==
    [][last'.cmd # "create_room" =>
          /\ \A id \in Ids : ~players[id].isAlive =>
                (id \in DOMAIN players' /\ ~players'[id].isAlive)
          /\ phase # PhaseWaiting =>
                Cardinality(Alive(players')) <= Cardinality(Alive(players))]_vars

\* a game dealt again over a room with a dead player: the player is still dead
C37_Witness ==
    /\ last.cmd = "start_game"
    /\ last.ok
    /\ phase = PhaseDay
    /\ \E id \in Ids : ~players[id].isAlive

\* ------------------------------------- handlers running concurrently (Night)
\* Every websocket connection has its own ReadPump goroutine, which calls
\* handleWebSocketMessage for each message it reads, so the handlers of
\* different connections run concurrently.  A handler of skip_action,
\* night_action or curse_action is not one critical section: it reads the
\* room through GetRoom, validates and records without the lock, and then
\* calls MarkNightActionComplete and MoveToNextNightRole, each of which
\* takes and releases gm.mu by itself.  The operators below are these pieces
\* as functions of the room; the actions apply one piece at a time.

\* the fields of the room the three handlers read or write
RoomNow ==
    [players |-> players, phase |-> phase,
     currentNightRole |-> currentNightRole,
     nightActionOrder |-> nightActionOrder,
     tigerTarget |-> tigerTarget, hunterProtection |-> hunterProtection,
     shamanVision |-> shamanVision, cursedPlayer |-> cursedPlayer,
     nightActionsCompleted |-> nightActionsCompleted, mu |-> mu]

\* the part of a handler before MarkNightActionComplete: the turn test (not
\* made by curse_action), the sender's checks and the recording of the action
ValidateOn(r, h) ==
    LET me == r.players[h.actor]
        t == h.target
    IN  CASE h.cmd = "skip_action" ->
               [ok |-> r.currentNightRole = me.role, room |-> r]
          [] h.cmd = "night_action" ->
               IF r.currentNightRole # me.role
               THEN [ok |-> FALSE, room |-> r]
               ELSE IF me.role = RoleShaman
               THEN [ok |-> TRUE, room |-> [r EXCEPT !.shamanVision = t]]
               ELSE IF me.role = RoleHunter
               THEN IF me.lastProtected = t
                    THEN [ok |-> FALSE, room |-> r]
                    ELSE [ok |-> TRUE,
                          room |-> [r EXCEPT !.hunterProtection = t,
                                       !.players[h.actor].lastProtected = t]]
               ELSE IF me.role \in {RoleTiger, RoleAlphaTiger}
               THEN [ok |-> TRUE, room |-> [r EXCEPT !.tigerTarget = t]]
               ELSE [ok |-> TRUE, room |-> r]
          [] OTHER ->
               IF me.role # RoleAlphaTiger \/ me.hasUsedCurse
               THEN [ok |-> FALSE, room |-> r]
               ELSE IF t \in DOMAIN r.players /\ r.players[t].isAlive
               THEN [ok |-> TRUE,
                     room |-> [r EXCEPT !.players[t].isCursed = TRUE,
                                  !.players[h.actor].hasUsedCurse = TRUE,
                                  !.cursedPlayer = t]]
               ELSE [ok |-> TRUE, room |-> r]

\* MarkNightActionComplete, one critical section
MarkOn(r, h) ==
    [r EXCEPT !.players[h.actor].hasActedThisNight = TRUE,
              !.nightActionsCompleted = @ \cup {h.actor}]

\* MoveToNextNightRole, one critical section, followed when it reports that
\* every role is done by MoveToNextPhase, which in Night never returns
AdvanceOn(r) ==
    IF r.phase # PhaseNight
    THEN [pc |-> "rejected", room |-> r]
    ELSE IF HasNextRole(r.nightActionOrder, r.currentNightRole)
    THEN [pc |-> "done",
          room |-> [r EXCEPT !.currentNightRole =
                       r.nightActionOrder[RoleIndex(r.nightActionOrder,
                                                    r.currentNightRole) + 1]]]
    ELSE [pc |-> "blocked",
          room |-> [r EXCEPT !.currentNightRole = NoRole, !.mu = "stuck"]]

SetRoom(r) ==
    /\ players' = r.players
    /\ currentNightRole' = r.currentNightRole
    /\ tigerTarget' = r.tigerTarget
    /\ hunterProtection' = r.hunterProtection
    /\ shamanVision' = r.shamanVision
    /\ cursedPlayer' = r.cursedPlayer
    /\ nightActionsCompleted' = r.nightActionsCompleted
    /\ mu' = r.mu
    /\ UNCHANGED <<exists, phase, round, phaseEndTime, voteResults,
                   nightActionOrder, waitingHunterShoot, deadHunterID,
                   winningTeam, crashed, nightResult, pre, last, shotKills,
                   budget, lynched>>

Handlers == inflight.handlers

At(k, pc) == k \in 1..Len(Handlers) /\ Handlers[k].pc = pc

Goto(k, pc) == inflight' = [inflight EXCEPT !.handlers[k].pc = pc]

\* a Night just entered from Voting with every player alive
RaceRoom(n) == [id \in 1..n |-> AssignedPlayer(NewPlayer, RoleList(n)[id])]

InitRace ==
    \E n \in {MinPlayers, AlphaMinPlayers} :
        /\ exists = TRUE
        /\ players = RaceRoom(n)
        /\ phase = PhaseNight
        /\ round = 1
        /\ phaseEndTime = NoTime
        /\ voteResults = EmptyMap
        /\ hunterProtection = NoId
        /\ tigerTarget = NoId
        /\ shamanVision = NoId
        /\ cursedPlayer = NoId
        /\ nightActionsCompleted = {}
        /\ nightActionOrder = getNightActionOrder(RaceRoom(n))
        /\ currentNightRole = getNightActionOrder(RaceRoom(n))[1]
        /\ waitingHunterShoot = FALSE
        /\ deadHunterID = NoId
        /\ winningTeam = ""
        /\ mu = "free"
        /\ crashed = FALSE
        /\ nightResult = NoResult
        /\ pre = NoPre
        /\ last = NoCmd
        /\ shotKills = 0
        /\ budget = 0
        /\ lynched = 0
        /\ inflight = [start |-> [players |-> RaceRoom(n), phase |-> PhaseNight,
                          currentNightRole |-> getNightActionOrder(RaceRoom(n))[1],
                          nightActionOrder |-> getNightActionOrder(RaceRoom(n)),
                          tigerTarget |-> NoId, hunterProtection |-> NoId,
                          shamanVision |-> NoId, cursedPlayer |-> NoId,
                          nightActionsCompleted |-> {}, mu |-> "free"],
                       handlers |-> <<>>]

\* ReadPump of some connection reads a message and calls the handler; the
\* connection's playerId is whatever its query string said
ReadPump ==
    /\ Len(Handlers) < MaxHandlers
    /\ \E c \in {"skip_action", "night_action", "curse_action"},
          a \in Ids, t \in NightTargetIds :
          inflight' = [inflight EXCEPT !.handlers =
                          Append(@, [cmd |-> c, actor |-> a, target |-> t,
                                     pc |-> "received"])]
    /\ UNCHANGED <<exists, players, phase, round, phaseEndTime, voteResults,
                   hunterProtection, tigerTarget, shamanVision, cursedPlayer,
                   nightActionsCompleted, currentNightRole, nightActionOrder,
                   waitingHunterShoot, deadHunterID, winningTeam, mu, crashed,
                   nightResult, pre, last, shotKills, budget, lynched>>

\* GetRoom and the handler's own checks and writes
HandlerValidate ==
    \E k \in 1..Len(Handlers) :
        /\ At(k, "received")
        /\ mu = "free"
        /\ LET v == ValidateOn(RoomNow, Handlers[k]) IN
              /\ SetRoom(v.room)
              /\ Goto(k, IF v.ok THEN "validated" ELSE "rejected")

\* the handler's call of MarkNightActionComplete
HandlerMark ==
    \E k \in 1..Len(Handlers) :
        /\ At(k, "validated")
        /\ mu = "free"
        /\ SetRoom(MarkOn(RoomNow, Handlers[k]))
        /\ Goto(k, "marked")

\* the handler's call of MoveToNextNightRole and what follows it
HandlerAdvance ==
    \E k \in 1..Len(Handlers) :
        /\ At(k, "marked")
        /\ mu = "free"
        /\ SetRoom(AdvanceOn(RoomNow).room)
        /\ Goto(k, AdvanceOn(RoomNow).pc)

NextRace == ReadPump \/ HandlerValidate \/ HandlerMark \/ HandlerAdvance

SpecRace == InitRace /\ [][NextRace]_vars

\* ----------------------------------------------------------- claims, cont.
\* a handler run alone from its first statement to its last on room r
RunAlone(r, h) ==
    IF r.mu # "free" THEN r
    ELSE LET v == ValidateOn(r, h)
         IN  IF v.ok THEN AdvanceOn(MarkOn(v.room, h)).room ELSE r

RECURSIVE OneAtATime(_, _)
\* the rooms reached by running the handlers of K one at a time in some order
OneAtATime(r, K) ==
    IF K = {} THEN {r}
    ELSE UNION {OneAtATime(RunAlone(r, Handlers[k]), K \ {k}) : k \in K}

Quiescent ==
    /\ Handlers # <<>>
    /\ \A k \in 1..Len(Handlers) :
          Handlers[k].pc \in {"done", "rejected", "blocked"}

\* C32: every client command on a room is atomic with respect to the other
\* commands on the room: under any interleaving of concurrently handled
\* commands the resulting room equals the room produced by executing those
\* commands one at a time in some order.
C32_Serializable ==
    Quiescent => RoomNow \in OneAtATime(inflight.start, 1..Len(Handlers))
====
